---------------------------- MODULE Spec2Model ----------------------------
(***************************************************************************)
(* Co-location pattern mining with rare features: the pipeline of          *)
(* main.cpp (grid neighbour index, feature catalog, ordered neighbourhoods,*)
(* NR-tree, level-wise miner) as a state machine.                          *)
(*                                                                         *)
(* Objects are records; a pointer (const SpatialInstance* ) is a record    *)
(* that names the array it points into and the position, so that pointer   *)
(* equality and object equality are different things, as in the code.      *)
(* Doubles that the code computes from counts are exact rationals <<n, d>>;*)
(* std::exp is kept symbolic (a value is p * exp(e)) and only compared.    *)
(***************************************************************************)
EXTENDS Integers, Sequences, FiniteSets, TLC

VARIABLES instances, distanceThreshold, minPrev, pc,
          gridCells, neighborPairs, featureCount, orderedNeighborMap, root,
          k, sortedTypes, prevColocations, prevTableInstances, candidates,
          fiteredCandidates, tableInstances, allPrevalentColocations,
          currentIteration, observed

vars == <<instances, distanceThreshold, minPrev, pc,
          gridCells, neighborPairs, featureCount, orderedNeighborMap, root,
          k, sortedTypes, prevColocations, prevTableInstances, candidates,
          fiteredCandidates, tableInstances, allPrevalentColocations,
          currentIteration, observed>>

(***************************************************************************)
(* Bounds of the input space.                                              *)
(***************************************************************************)
MaxObjs == 3
MaxX == 3
MaxY == 1
MaxD == 2
\* The distance thresholds start below zero: no caller checks the sign.
MinD == -1
\* The small instance counts calculateDelta is called with on its own.
MaxCount == 3

FeatureTypes == {"A", "B", "C"}

\* std::string operator< on the one-letter feature labels.
StrRank ==
    [t \in FeatureTypes \cup {"D"} |->
        CASE t = "A" -> 1 [] t = "B" -> 2 [] t = "C" -> 3 [] OTHER -> 4]
StrLess(a, b) == StrRank[a] < StrRank[b]

(***************************************************************************)
(* Generic helpers on sequences and sets.                                  *)
(***************************************************************************)
Range(s) == {s[i] : i \in DOMAIN s}

RECURSIVE Flatten(_)
Flatten(ss) == IF ss = <<>> THEN <<>> ELSE Head(ss) \o Flatten(Tail(ss))

\* The elements of a finite set as a sequence, in some order (sorted by its users).
RECURSIVE SetToSeq(_)
SetToSeq(S) ==
    IF S = {} THEN <<>>
    ELSE LET m == CHOOSE x \in S : TRUE
         IN  <<m>> \o SetToSeq(S \ {m})

\* std::unique on a sorted vector: adjacent equal elements collapse.
RECURSIVE Unique(_)
Unique(s) ==
    IF Len(s) <= 1 THEN s
    ELSE IF s[1] = s[2] THEN Unique(Tail(s))
         ELSE <<s[1]>> \o Unique(Tail(s))

MinOf(S) == CHOOSE x \in S : \A y \in S : x <= y
MaxOf(S) == CHOOSE x \in S : \A y \in S : x >= y

\* ceil(a / b) and the size_t truncation of a / b, for a >= 0, b > 0.
CeilDiv(a, b) == (a + b - 1) \div b
FloorDiv(a, b) == a \div b

(***************************************************************************)
(* Rationals <<n, d>> with d > 0, kept in lowest terms.                    *)
(***************************************************************************)
RECURSIVE Gcd(_, _)
Gcd(a, b) == IF b = 0 THEN a ELSE Gcd(b, a % b)
Abs(a) == IF a < 0 THEN -a ELSE a

Norm(n, d) ==
    LET g == Gcd(Abs(n), Abs(d))
        s == IF d < 0 THEN -1 ELSE 1
    IN  IF n = 0 THEN <<0, 1>> ELSE <<s * (n \div g), s * (d \div g)>>
RAdd(a, b) == Norm(a[1] * b[2] + b[1] * a[2], a[2] * b[2])
RSub(a, b) == Norm(a[1] * b[2] - b[1] * a[2], a[2] * b[2])
RMul(a, b) == Norm(a[1] * b[1], a[2] * b[2])
RDiv(a, b) == Norm(a[1] * b[2], a[2] * b[1])
RLess(a, b) == a[1] * b[2] < b[1] * a[2]
RLeq(a, b) == a[1] * b[2] <= b[1] * a[2]
RInt(n) == <<n, 1>>

(***************************************************************************)
(* Objects, ids and pointers.                                              *)
(***************************************************************************)
\* An id is the string pre + num ("A1"); substr(0, 1) is pre.
IdLess(a, b) == \/ StrLess(a.pre, b.pre)
                \/ a.pre = b.pre /\ a.num < b.num

\* Pointers: &instances[idx], &pairs[idx].first (side 1), &pairs[idx].second (side 2).
InstPtr(i) == [arr |-> "instances", idx |-> i, side |-> 0]
PairPtr(p, s) == [arr |-> "pairs", idx |-> p, side |-> s]
DerefIn(insts, pairs, h) ==
    IF h.arr = "instances" THEN insts[h.idx] ELSE pairs[h.idx][h.side]
Deref(h) == DerefIn(instances, neighborPairs, h)

(***************************************************************************)
(* SpatialIndex::findNeighborPair.                                         *)
(***************************************************************************)
\* euclideanDist(a, b) <= d: a root is never below zero.
euclideanLeq(a, b, d) ==
    /\ d >= 0
    /\ (a.x - b.x) * (a.x - b.x) + (a.y - b.y) * (a.y - b.y) <= d * d

minXOf(insts) == MinOf({insts[i].x : i \in DOMAIN insts})
minYOf(insts) == MinOf({insts[i].y : i \in DOMAIN insts})
maxXOf(insts) == MaxOf({insts[i].x : i \in DOMAIN insts})
maxYOf(insts) == MaxOf({insts[i].y : i \in DOMAIN insts})

gridCellsXOf(insts, d) == CeilDiv(maxXOf(insts) - minXOf(insts), d)
gridCellsYOf(insts, d) == CeilDiv(maxYOf(insts) - minYOf(insts), d)
totalCellsOf(insts, d) == gridCellsXOf(insts, d) * gridCellsYOf(insts, d)

cellXOf(insts, d, inst) == FloorDiv(inst.x - minXOf(insts), d)
cellYOf(insts, d, inst) == FloorDiv(inst.y - minYOf(insts), d)
\* The index the assignment loop writes to: cellX * gridCellsY + cellY.
cellIndexOf(insts, d, inst) ==
    cellXOf(insts, d, inst) * gridCellsYOf(insts, d) + cellYOf(insts, d, inst)

\* Some push_back of the assignment loop indexes past the end of gridCells.
OutOfBoundsWrite(insts, d) ==
    \E i \in DOMAIN insts : cellIndexOf(insts, d, insts[i]) >= totalCellsOf(insts, d)

\* gridCells after the assignment loop, when every out-of-bounds write was
\* lost (it landed outside the vector and no cell holds the object).
AssignCells(insts, d) ==
    [c \in 0 .. (totalCellsOf(insts, d) - 1) |->
        SelectSeq(insts, LAMBDA o : cellIndexOf(insts, d, o) = c)]

\* The pairs one object cell[i] of cell (cx, cy) contributes, in loop order.
PairsOfObject(grid, gx, gy, d, cx, cy, i) ==
    LET cell == grid[cx * gy + cy]
        within == [j \in 1 .. (Len(cell) - i) |-> cell[i + j]]
        inCell == SelectSeq(within,
                     LAMBDA o : cell[i].type # o.type /\ euclideanLeq(cell[i], o, d))
        deltas == << <<0, 1>>, <<1, -1>>, <<1, 0>>, <<1, 1>> >>
        adj(dl) ==
            LET nx == cx + dl[1]
                ny == cy + dl[2]
            IN  IF nx < gx /\ ny >= 0 /\ ny < gy
                THEN SelectSeq(grid[nx * gy + ny],
                        LAMBDA o : cell[i].type # o.type /\ euclideanLeq(cell[i], o, d))
                ELSE <<>>
        others == inCell \o Flatten([n \in 1 .. 4 |-> adj(deltas[n])])
    IN  [n \in 1 .. Len(others) |-> <<cell[i], others[n]>>]

PairsOfGrid(grid, gx, gy, d) ==
    Flatten([c \in 1 .. (gx * gy) |->
        LET cx == (c - 1) \div gy
            cy == (c - 1) % gy
        IN  Flatten([i \in 1 .. Len(grid[cx * gy + cy]) |->
                PairsOfObject(grid, gx, gy, d, cx, cy, i)])])

findNeighborPair(insts, d) ==
    PairsOfGrid(AssignCells(insts, d), gridCellsXOf(insts, d), gridCellsYOf(insts, d), d)

(***************************************************************************)
(* Feature catalog (utils.cpp).                                            *)
(***************************************************************************)
\* std::map<FeatureType, int>: the key is the first character of the id.
countInstancesByFeature(insts) ==
    [t \in {insts[i].id.pre : i \in DOMAIN insts} |->
        Cardinality({i \in DOMAIN insts : insts[i].id.pre = t})]

\* The distinct instance.type values, in std::set order.
getAllObjectTypes(insts) ==
    SortSeq(SetToSeq({insts[i].type : i \in DOMAIN insts}), StrLess)

\* The comparator shared by featureSort and NRTree::build: a missing key counts 0.
CountOrZero(counts, t) == IF t \in DOMAIN counts THEN counts[t] ELSE 0
CountLess(counts, a, b) ==
    IF CountOrZero(counts, a) # CountOrZero(counts, b)
    THEN CountOrZero(counts, a) < CountOrZero(counts, b)
    ELSE StrLess(a, b)

featureSort(featureSet, insts) ==
    LET featureCounts == countInstancesByFeature(insts)
    IN  SortSeq(featureSet, LAMBDA a, b : CountLess(featureCounts, a, b))

(***************************************************************************)
(* NeighborhoodMgr (neighborhood_mgr.cpp).                                 *)
(***************************************************************************)
\* counts.at(...) throws std::out_of_range on a missing key.
isOrderedThrows(centerType, neighborType, counts) ==
    centerType \notin DOMAIN counts \/ neighborType \notin DOMAIN counts

isOrdered(centerType, neighborType, counts) ==
    LET numCenter == counts[centerType]
        numNeighbor == counts[neighborType]
    IN  IF numCenter < numNeighbor THEN TRUE
        ELSE IF numCenter = numNeighbor
             THEN centerType = neighborType \/ StrLess(centerType, neighborType)
             ELSE FALSE

\* neighbors[type].push_back(ptr) on an unordered_map<FeatureType, vector<ptr>>.
PushNeighbor(neighbors, t, ptr) ==
    IF t \in DOMAIN neighbors
    THEN [neighbors EXCEPT ![t] = Append(@, ptr)]
    ELSE neighbors @@ (t :> <<ptr>>)

\* One branch of the loop body: record neighbor under center (lines 53-66).
RecordNeighbor(map, pairs, centerPtr, neighborPtr) ==
    LET center == pairs[centerPtr.idx][centerPtr.side]
        neighbor == pairs[neighborPtr.idx][neighborPtr.side]
        neighborhoodList == IF center.type \in DOMAIN map THEN map[center.type] ELSE <<>>
        found == {i \in DOMAIN neighborhoodList :
                    LET c == neighborhoodList[i].center
                    IN  pairs[c.idx][c.side].id = center.id}
        newList ==
            IF found # {}
            THEN LET i == MinOf(found)
                 IN  [neighborhoodList EXCEPT
                        ![i].neighbors = PushNeighbor(@, neighbor.type, neighborPtr)]
            ELSE Append(neighborhoodList,
                        [center |-> centerPtr,
                         neighbors |-> (neighbor.type :> <<neighborPtr>>)])
    IN  IF center.type \in DOMAIN map
        THEN [map EXCEPT ![center.type] = newList]
        ELSE map @@ (center.type :> newList)

RECURSIVE buildLoop(_, _, _, _)
buildLoop(pairs, featureCounts, p, map) ==
    IF p > Len(pairs) THEN map
    ELSE LET center == pairs[p][1]
             neighbor == pairs[p][2]
             m1 == IF isOrdered(center.type, neighbor.type, featureCounts)
                   THEN RecordNeighbor(map, pairs, PairPtr(p, 1), PairPtr(p, 2))
                   ELSE map
             m2 == IF isOrdered(neighbor.type, center.type, featureCounts)
                   THEN RecordNeighbor(m1, pairs, PairPtr(p, 2), PairPtr(p, 1))
                   ELSE m1
         IN  buildLoop(pairs, featureCounts, p + 1, m2)

buildFromPairsThrows(pairs, featureCounts) ==
    \E p \in DOMAIN pairs :
        isOrderedThrows(pairs[p][1].type, pairs[p][2].type, featureCounts)

\* orderedNeighborMap after buildFromPairs (it is cleared first).
buildFromPairs(pairs, featureCounts) == buildLoop(pairs, featureCounts, 1, <<>>)

(***************************************************************************)
(* NRTree::build (NRTree.cpp).  A node is a record with the fields of      *)
(* NRNode that its level uses; root is the ROOT_NODE.                      *)
(***************************************************************************)
emptyRoot == [type |-> "ROOT_NODE", children |-> <<>>]

\* Level 4: the neighbour pointers sorted by (type, id).
instanceVectorNode(pairs, neighborInstances) ==
    [type |-> "INSTANCE_VECTOR_NODE",
     instanceVector |->
        SortSeq(neighborInstances,
            LAMBDA a, b :
                LET oa == pairs[a.idx][a.side]
                    ob == pairs[b.idx][b.side]
                IN  IF oa.type # ob.type THEN StrLess(oa.type, ob.type)
                    ELSE IdLess(oa.id, ob.id))]

\* Level 3 under one centre: one FEATURE_NODE per neighbour type, by (count, label).
neighborFeatureNodes(pairs, featureCounts, star) ==
    LET neighborFeatureTypes ==
            SortSeq(SetToSeq(DOMAIN star.neighbors),
                    LAMBDA a, b : CountLess(featureCounts, a, b))
    IN  [n \in DOMAIN neighborFeatureTypes |->
            [type |-> "FEATURE_NODE",
             featureType |-> neighborFeatureTypes[n],
             children |-> <<instanceVectorNode(pairs,
                                star.neighbors[neighborFeatureTypes[n]])>>]]

\* Level 2 under one feature: one INSTANCE_NODE per centre, by centre id.
centerNodes(pairs, featureCounts, starList) ==
    LET sortedStarList ==
            SortSeq(starList,
                LAMBDA a, b : IdLess(pairs[a.center.idx][a.center.side].id,
                                     pairs[b.center.idx][b.center.side].id))
    IN  [n \in DOMAIN sortedStarList |->
            [type |-> "INSTANCE_NODE",
             instancePtr |-> sortedStarList[n].center,
             children |-> neighborFeatureNodes(pairs, featureCounts, sortedStarList[n])]]

\* The new root: level 1 holds one FEATURE_NODE per key of the neighbourhood map.
NRTreeBuild(rawMap, pairs, featureCounts) ==
    LET sortedFeatures ==
            SortSeq(SetToSeq(DOMAIN rawMap),
                    LAMBDA a, b : CountLess(featureCounts, a, b))
    IN  [type |-> "ROOT_NODE",
         children |->
            [n \in DOMAIN sortedFeatures |->
                [type |-> "FEATURE_NODE",
                 featureType |-> sortedFeatures[n],
                 children |-> centerNodes(pairs, featureCounts,
                                          rawMap[sortedFeatures[n]])]]]

(***************************************************************************)
(* Doubles.  A weighted ratio is the value p * exp(e) with p, e rationals, *)
(* e >= 0; only its order against another such value is ever needed.       *)
(* exp(x) for a rational x > 0 is irrational, so the order is decided by a *)
(* truncated Taylor sum in fixed point.                                    *)
(***************************************************************************)
FixedOne == 100000
ExpTerms == 16
ExpCap == <<4, 1>>
ExpCapValue == <<54, 1>>

\* floor(FixedOne * sum_{i < ExpTerms} x^i / i!), a lower bound of FixedOne * exp(x).
\* The next term is floor(term * x / (i + 1)), the product split so that it stays
\* within 32 bits.
RECURSIVE ExpSum(_, _, _)
ExpSum(x, i, term) ==
    IF i >= ExpTerms \/ term = 0 THEN 0
    ELSE term + ExpSum(x, i + 1,
                       ((term \div x[2]) * x[1] + ((term % x[2]) * x[1]) \div x[2])
                            \div (i + 1))
ExpLow(x) == ExpSum(x, 0, FixedOne)

\* q < exp(x), for rationals q and x with x > 0.
QLessExp(q, x) ==
    IF RLess(ExpCap, x) THEN RLeq(q, ExpCapValue)
    ELSE q[1] * FixedOne < ExpLow(x) * q[2]

\* exp(x) < q, for rationals q and x with x > 0.
ExpLessQ(x, q) == ~QLessExp(q, x)

\* a.p * exp(a.e) < b.p * exp(b.e)
VLess(a, b) ==
    IF a.p[1] <= 0 THEN b.p[1] > 0
    ELSE IF b.p[1] <= 0 THEN FALSE
    ELSE LET q == RDiv(a.p, b.p)
             x == RSub(b.e, a.e)
         IN  IF x[1] = 0 THEN RLess(q, RInt(1))
             ELSE IF x[1] > 0 THEN QLessExp(q, x)
             ELSE ExpLessQ(RSub(a.e, b.e), RDiv(b.p, a.p))

Plain(r) == [p |-> r, e |-> RInt(0)]

(***************************************************************************)
(* Scores (utils.cpp).                                                     *)
(***************************************************************************)
\* 1 / EPSILON_SMALL and 1 / EPSILON_DELTA.
EPSILON_SMALL_INV == 1000000000
EPSILON_DELTA_INV == 1000000000
\* ln(1 / EPSILON_SMALL) = 20.7232..., the exponent at which exp(-e) = EPSILON_SMALL.
LnEpsilonSmallInv == <<20723, 1000>>

\* The ratio taken upside down, counts[i] / counts[j].
deltaRatioInverted(numerator, denominator) ==
    IF numerator = 0 THEN RInt(denominator * EPSILON_SMALL_INV)
    ELSE Norm(denominator, numerator)

\* counts[j] / counts[i] of calculateDelta, a zero denominator replaced by EPSILON_SMALL.
deltaRatio(numerator, denominator) ==
    IF denominator = 0 THEN RInt(numerator * EPSILON_SMALL_INV)
    ELSE Norm(numerator, denominator)

\* The sum of the ratios (lines 126-133).  Rational addition is exact, so the
\* two halves are summed apart to keep the evaluation shallow on long lists.
RECURSIVE RSum(_)
RSum(rs) ==
    IF rs = <<>> THEN RInt(0)
    ELSE IF Len(rs) = 1 THEN RAdd(rs[1], RInt(0))
    ELSE RAdd(RSum(SubSeq(rs, 1, Len(rs) \div 2)),
              RSum(SubSeq(rs, Len(rs) \div 2 + 1, Len(rs))))

calculateDelta(sortedFeatures, featureCounts) ==
    IF Len(sortedFeatures) < 2 THEN RInt(0)
    ELSE LET counts == [i \in DOMAIN sortedFeatures |->
                            CountOrZero(featureCounts, sortedFeatures[i])]
             numFeatures == Len(counts)
             ratios == Flatten([i \in 1 .. numFeatures |->
                          [j \in 1 .. (numFeatures - i) |->
                              deltaRatio(counts[i + j], counts[i])]])
             factor == Norm(2, numFeatures * (numFeatures - 1))
         IN  RMul(factor, RSum(ratios))

\* The position of featureType in pattern, 0 when absent (featureIndex == -1).
featureIndexOf(featureType, pattern) ==
    IF \E i \in DOMAIN pattern : pattern[i] = featureType
    THEN MinOf({i \in DOMAIN pattern : pattern[i] = featureType})
    ELSE 0

calculatePR(featureType, pattern, tableInstance, featureCounts) ==
    LET featureIndex == featureIndexOf(featureType, pattern)
        instancesList == IF pattern \in DOMAIN tableInstance
                         THEN tableInstance[pattern] ELSE <<>>
        distinctInstances ==
            {Deref(instancesList[r][featureIndex]).id :
                r \in {r \in DOMAIN instancesList : featureIndex <= Len(instancesList[r])}}
        totalCount == CountOrZero(featureCounts, featureType)
    IN  IF featureIndex = 0 THEN RInt(0)
        ELSE IF totalCount = 0 THEN RInt(0)
        ELSE Norm(Cardinality(distinctInstances), totalCount)

\* RI is 0.0 (zero) or exp(-e).
calculateRareIntensity(rareType, pattern, featureCounts, delta) ==
    LET deltaTiny == delta[1] <= 0 \/ delta[2] \div delta[1] >= EPSILON_DELTA_INV
        missing == \E i \in DOMAIN pattern : pattern[i] \notin DOMAIN featureCounts
        minCount == IF missing THEN 0
                    ELSE MinOf({featureCounts[pattern[i]] : i \in DOMAIN pattern})
        rareCount == CountOrZero(featureCounts, rareType)
        v_val == Norm(rareCount, minCount)
        numerator == RMul(RSub(v_val, RInt(1)), RSub(v_val, RInt(1)))
        denominator == RMul(RInt(2), RMul(delta, delta))
    IN  IF deltaTiny THEN [zero |-> TRUE, e |-> RInt(0)]
        ELSE IF rareType \notin Range(pattern) THEN [zero |-> TRUE, e |-> RInt(0)]
        ELSE IF minCount <= 0 THEN [zero |-> TRUE, e |-> RInt(0)]
        ELSE [zero |-> FALSE, e |-> RDiv(numerator, denominator)]

\* The minimum of a non-empty sequence of values, folded as the loops fold it.
RECURSIVE MinFold(_, _, _)
MinFold(vs, i, acc) ==
    IF i > Len(vs) THEN acc
    ELSE MinFold(vs, i + 1, IF VLess(vs[i], acc) THEN vs[i] ELSE acc)

calculatePI(pattern, tableInstance, featureCounts) ==
    IF pattern = <<>> THEN RInt(0)
    ELSE LET prs == [i \in DOMAIN pattern |->
                        Plain(calculatePR(pattern[i], pattern, tableInstance, featureCounts))]
         IN  MinFold(prs, 2, prs[1]).p

(***************************************************************************)
(* JoinlessMiner (miner.cpp).                                              *)
(***************************************************************************)
\* std::vector<std::string> operator<: lexicographic.
RECURSIVE ColLess(_, _)
ColLess(a, b) ==
    IF b = <<>> THEN FALSE
    ELSE IF a = <<>> THEN TRUE
    ELSE IF a[1] # b[1] THEN StrLess(a[1], b[1])
    ELSE ColLess(Tail(a), Tail(b))

Front(c) == SubSeq(c, 1, Len(c) - 1)
Back(c) == c[Len(c)]

\* The (i, j) pairs the join loop visits, in loop order, that share their prefix.
joinPairs(prevPrevalent) ==
    Flatten([i \in DOMAIN prevPrevalent |->
        SelectSeq([j \in 1 .. (Len(prevPrevalent) - i) |-> <<i, i + j>>],
                  LAMBDA ij : Front(prevPrevalent[ij[1]]) = Front(prevPrevalent[ij[2]]))])

\* featureCount.at(...) of line 223 throws on a missing key.
generateCandidatesThrows(prevPrevalent, featureCounts) ==
    \E n \in DOMAIN joinPairs(prevPrevalent) :
        LET ij == joinPairs(prevPrevalent)[n]
        IN  \/ Back(prevPrevalent[ij[1]]) \notin DOMAIN featureCounts
            \/ Back(prevPrevalent[ij[2]]) \notin DOMAIN featureCounts

\* The join only of members that have a feature in common: nothing is joined
\* from the single features of the first level.
generateCandidatesWithPrefix(prevPrevalent, featureCounts) ==
    IF prevPrevalent = <<>> THEN <<>>
    ELSE LET ijs == SelectSeq(joinPairs(prevPrevalent),
                              LAMBDA ij : Front(prevPrevalent[ij[1]]) # <<>>)
             joined == [n \in DOMAIN ijs |->
                LET a == prevPrevalent[ijs[n][1]]
                    b == prevPrevalent[ijs[n][2]]
                IN  IF featureCounts[Back(a)] <= featureCounts[Back(b)]
                    THEN Append(a, Back(b))
                    ELSE Append(b, Back(a))]
         IN  Unique(SortSeq(joined, ColLess))

\* The join without the comparison of line 223: the last feature of the later
\* member is appended to the earlier member, whatever the counts are.
generateCandidatesInListOrder(prevPrevalent, featureCounts) ==
    IF prevPrevalent = <<>> THEN <<>>
    ELSE LET ijs == joinPairs(prevPrevalent)
             joined == [n \in DOMAIN ijs |->
                Append(prevPrevalent[ijs[n][1]], Back(prevPrevalent[ijs[n][2]]))]
         IN  Unique(SortSeq(joined, ColLess))

generateCandidates(prevPrevalent, featureCounts) ==
    IF prevPrevalent = <<>> THEN <<>>
    ELSE LET ijs == joinPairs(prevPrevalent)
             joined == [n \in DOMAIN ijs |->
                LET a == prevPrevalent[ijs[n][1]]
                    b == prevPrevalent[ijs[n][2]]
                IN  IF featureCounts[Back(a)] <= featureCounts[Back(b)]
                    THEN Append(a, Back(b))
                    ELSE Append(b, Back(a))]
         IN  Unique(SortSeq(joined, ColLess))

\* candidate without position i.
subsetWithout(candidate, i) ==
    [j \in 1 .. (Len(candidate) - 1) |-> IF j < i THEN candidate[j] ELSE candidate[j + 1]]

\* Lemma 3 (lines 285-298): piSubset * (1.0 / RI) < minPrev.  With RI = 0.0 the
\* weight is +inf and the product is +inf or NaN: the comparison is false.
lemma3Prunes(candidate, tableInstance, minPrevalence, featureCounts, delta) ==
    LET f_max == Back(candidate)
        RI == calculateRareIntensity(f_max, candidate, featureCounts, delta)
        piSubset == calculatePI(subsetWithout(candidate, 1), tableInstance, featureCounts)
    IN  /\ ~RI.zero
        /\ VLess([p |-> piSubset, e |-> RI.e], Plain(minPrevalence))

\* Lemma 2 (lines 269-275): some subset that keeps candidate[0] is not prevalent.
lemma2Prunes(candidate, prevPrevalent) ==
    \E i \in 2 .. Len(candidate) : subsetWithout(candidate, i) \notin Range(prevPrevalent)

filterCandidates(cands, prevPrevalent, tableInstance, minPrevalence, featureCounts, delta) ==
    IF cands = <<>> \/ prevPrevalent = <<>> THEN <<>>
    ELSE SelectSeq(cands, LAMBDA candidate :
            /\ ~lemma3Prunes(candidate, tableInstance, minPrevalence, featureCounts, delta)
            /\ ~lemma2Prunes(candidate, prevPrevalent))

\* The comparison by object identity (the ids of the two objects).
centerMatchesById(nodePtr, instance) == Deref(nodePtr).id = Deref(instance).id

\* instanceNode->data == instance: the centre of the node is the row's pointer.
centerMatches(nodePtr, instance) == nodePtr = instance

findNeighbors(tree, instance, featureType) ==
    LET hits == Flatten([a \in DOMAIN tree.children |->
            LET featureNode == tree.children[a]
            IN  IF featureNode.type = "FEATURE_NODE"
                   /\ featureNode.featureType = Deref(instance).type
                THEN Flatten([b \in DOMAIN featureNode.children |->
                    LET instanceNode == featureNode.children[b]
                    IN  IF instanceNode.type = "INSTANCE_NODE"
                           /\ centerMatches(instanceNode.instancePtr, instance)
                        THEN Flatten([c \in DOMAIN instanceNode.children |->
                            LET neighborFeatureNode == instanceNode.children[c]
                            IN  IF /\ neighborFeatureNode.type = "FEATURE_NODE"
                                   /\ neighborFeatureNode.featureType = featureType
                                   /\ neighborFeatureNode.children # <<>>
                                   /\ neighborFeatureNode.children[1].type
                                        = "INSTANCE_VECTOR_NODE"
                                THEN <<neighborFeatureNode.children[1].instanceVector>>
                                ELSE <<>>])
                        ELSE <<>>])
                ELSE <<>>])
    IN  IF hits = <<>> THEN <<>> ELSE hits[1]

\* S(I, f): the neighbours of instance[0] that every later neighbour list holds,
\* as a std::set of pointers.
RECURSIVE intersectFrom(_, _, _, _, _)
intersectFrom(tree, instance, featureType, i, intersection) ==
    IF i > Len(instance) \/ intersection = <<>> THEN intersection
    ELSE LET neighborSet == Range(findNeighbors(tree, instance[i], featureType))
         IN  intersectFrom(tree, instance, featureType, i + 1,
                 SelectSeq(intersection, LAMBDA inst : inst \in neighborSet))

\* The neighbour lists of the row's objects joined end to end instead of
\* intersected.
findExtendedSetOfAnyMember(tree, instance, featureType) ==
    Flatten([i \in DOMAIN instance |-> findNeighbors(tree, instance[i], featureType)])

findExtendedSet(tree, instance, featureType) ==
    IF instance = <<>> THEN <<>>
    ELSE LET first == findNeighbors(tree, instance[1], featureType)
         IN  IF Len(instance) = 1 THEN first
             ELSE intersectFrom(tree, instance, featureType, 2, first)

\* The rows genTableInstance emits for one candidate.
newTableRows(candidate, prevTables, tree) ==
    LET subPattern == Front(candidate)
        newFeature == Back(candidate)
    IN  IF subPattern \notin DOMAIN prevTables THEN <<>>
        ELSE Flatten([r \in DOMAIN prevTables[subPattern] |->
                LET prevInstance == prevTables[subPattern][r]
                    extendedSet == SelectSeq(
                        findExtendedSet(tree, prevInstance, newFeature),
                        LAMBDA neighbor : Deref(neighbor).type = newFeature)
                IN  [n \in DOMAIN extendedSet |-> Append(prevInstance, extendedSet[n])]])

genTableInstance(cands, prevTables, tree) ==
    [candidate \in {c \in Range(cands) : c # <<>> /\ newTableRows(c, prevTables, tree) # <<>>}
        |-> newTableRows(candidate, prevTables, tree)]

\* WPR(f, C) = PR * w with w = 1 / RI when RI > EPSILON_SMALL, else 0.
weightedPR(feature, candidate, tables, featureCounts, delta) ==
    LET pr == calculatePR(feature, candidate, tables, featureCounts)
        ri == calculateRareIntensity(feature, candidate, featureCounts, delta)
    IN  IF ~ri.zero /\ RLess(ri.e, LnEpsilonSmallInv)
        THEN [p |-> pr, e |-> ri.e]
        ELSE Plain(RInt(0))

candidateWPI(candidate, tables, featureCounts, delta) ==
    LET wprs == [i \in DOMAIN candidate |->
                    weightedPR(candidate[i], candidate, tables, featureCounts, delta)]
    IN  IF candidate = <<>> THEN Plain(RInt(1)) ELSE MinFold(wprs, 2, wprs[1])

\* Every candidate kept, whatever its index.
selectEveryCandidate(cands, tables, minPrevalence, featureCounts, delta) == cands

\* The comparison of line 611 turned round: kept when the index is below.
selectBelowThreshold(cands, tables, minPrevalence, featureCounts, delta) ==
    SelectSeq(cands, LAMBDA candidate :
        VLess(candidateWPI(candidate, tables, featureCounts, delta), Plain(minPrevalence)))

selectPrevColocations(cands, tables, minPrevalence, featureCounts, delta) ==
    SelectSeq(cands, LAMBDA candidate :
        ~VLess(candidateWPI(candidate, tables, featureCounts, delta), Plain(minPrevalence)))

\* T1 keyed by the first character of the id, as the counts are.
initialTableInstancesByIdPrefix(insts) ==
    [key \in {<<insts[i].id.pre>> : i \in DOMAIN insts} |->
        LET is == SelectSeq([i \in DOMAIN insts |-> i],
                            LAMBDA i : <<insts[i].id.pre>> = key)
        IN  [n \in DOMAIN is |-> <<InstPtr(is[n])>>]]

\* T1: one single-object row per input object, keyed by the object's type.
initialTableInstances(insts) ==
    [key \in {<<insts[i].type>> : i \in DOMAIN insts} |->
        LET is == SelectSeq([i \in DOMAIN insts |-> i], LAMBDA i : <<insts[i].type>> = key)
        IN  [n \in DOMAIN is |-> <<InstPtr(is[n])>>]]

(***************************************************************************)
(* The pipeline of main.cpp and the loop of mineColocations.               *)
(***************************************************************************)
\* The thresholds mineColocations is called with.
MinPrevs == {<<0, 1>>, <<1, 2>>, <<1, 1>>}
\* minPrev before a configuration has fixed it.
NoThreshold == <<>>

\* How the loader names the objects: the id starts with the object's type
\* ("typed"), or ids of A objects start with B and ids of B objects with A.
IdSchemes == {"typed", "swapped"}
IdPrefix(scheme, t) ==
    IF scheme = "typed" THEN t
    ELSE CASE t = "A" -> "B" [] t = "B" -> "A" [] OTHER -> t

ObjectShapes == [type : FeatureTypes, x : 0 .. MaxX, y : 0 .. MaxY]

InputObjects(shapes, scheme) ==
    [i \in DOMAIN shapes |->
        [id |-> [pre |-> IdPrefix(scheme, shapes[i].type), num |-> i],
         type |-> shapes[i].type, x |-> shapes[i].x, y |-> shapes[i].y]]

\* delta is computed once (line 42) from values that never change afterwards.
delta == calculateDelta(sortedTypes, featureCount)

\* The result replaced by the last non-empty level instead of extended by it.
accumulateLastLevel(allPrevalent, prevalent) ==
    IF prevalent # <<>> THEN prevalent ELSE allPrevalent

\* The level inserted at the begin of the result instead of at its end.
accumulateAtFront(allPrevalent, prevalent) ==
    IF prevalent # <<>> THEN prevalent \o allPrevalent ELSE allPrevalent

\* Lines 147-152: a non-empty level is appended to the result.
accumulate(allPrevalent, prevalent) ==
    IF prevalent # <<>> THEN allPrevalent \o prevalent ELSE allPrevalent

\* The process at the entry of main's pipeline, nothing built or observed yet.
Start ==
    /\ observed = <<>>
    /\ pc = "index"
    /\ gridCells = <<>>
    /\ neighborPairs = <<>>
    /\ featureCount = <<>>
    /\ orderedNeighborMap = <<>>
    /\ root = emptyRoot
    /\ k = 0
    /\ sortedTypes = <<>>
    /\ prevColocations = <<>>
    /\ prevTableInstances = <<>>
    /\ candidates = <<>>
    /\ fiteredCandidates = <<>>
    /\ tableInstances = <<>>
    /\ allPrevalentColocations = <<>>
    /\ currentIteration = 0

Init ==
    /\ \E n \in 0 .. MaxObjs : \E shapes \in [1 .. n -> ObjectShapes] :
        \E scheme \in IdSchemes : instances = InputObjects(shapes, scheme)
    /\ distanceThreshold \in MinD .. MaxD
    /\ minPrev = NoThreshold
    /\ Start

minerVars == <<k, sortedTypes, prevColocations, prevTableInstances, candidates,
               fiteredCandidates, tableInstances, allPrevalentColocations,
               currentIteration>>
\* What the caller of the pipeline holds: the input, the parameters, and what
\* it has observed of calls that returned earlier.
inputVars == <<instances, distanceThreshold, minPrev, observed>>

\* main.cpp:59.  An empty input returns at once; otherwise the grid is filled
\* and scanned.
FindNeighborPair ==
    /\ pc = "index"
    /\ \/ instances = <<>>
       \/ distanceThreshold > 0 /\ ~OutOfBoundsWrite(instances, distanceThreshold)
    /\ gridCells' = IF instances = <<>> THEN <<>>
                    ELSE AssignCells(instances, distanceThreshold)
    /\ neighborPairs' = IF instances = <<>> THEN <<>>
                        ELSE findNeighborPair(instances, distanceThreshold)
    /\ pc' = "count"
    /\ UNCHANGED <<inputVars, featureCount, orderedNeighborMap, root, minerVars>>

\* The same call when a push_back indexes past the end of gridCells: undefined
\* behaviour.  The process dies, or the write lands outside the vector and the
\* object is in no cell that the scan reads.
FindNeighborPairOutOfBounds ==
    /\ pc = "index"
    /\ instances # <<>> /\ distanceThreshold > 0
    /\ OutOfBoundsWrite(instances, distanceThreshold)
    /\ \/ /\ pc' = "crashed_index"
          /\ UNCHANGED <<gridCells, neighborPairs>>
       \/ /\ gridCells' = AssignCells(instances, distanceThreshold)
          /\ neighborPairs' = findNeighborPair(instances, distanceThreshold)
          /\ pc' = "count"
    /\ UNCHANGED <<inputVars, featureCount, orderedNeighborMap, root, minerVars>>

\* The same call with objects and a threshold that is not positive.  Lines
\* 62-63 divide by it and convert the quotient (infinite, not a number, or
\* negative) to size_t, which is undefined; the grid then has no cell for the
\* first push_back of line 70, or the scan of lines 74-75 runs off the cells it
\* has.  Every build ends the process there; no statement reports the value.
FindNeighborPairInvalidDistance ==
    /\ pc = "index"
    /\ instances # <<>> /\ distanceThreshold <= 0
    /\ pc' = "crashed_index"
    /\ UNCHANGED <<inputVars, gridCells, neighborPairs, featureCount,
                   orderedNeighborMap, root, minerVars>>

\* main.cpp:71
CountInstances ==
    /\ pc = "count"
    /\ featureCount' = countInstancesByFeature(instances)
    /\ pc' = "neigh"
    /\ UNCHANGED <<inputVars, gridCells, neighborPairs, orderedNeighborMap, root, minerVars>>

\* main.cpp:74.  A type without a key in featureCount makes isOrdered throw.
BuildFromPairs ==
    /\ pc = "neigh"
    /\ IF buildFromPairsThrows(neighborPairs, featureCount)
       THEN pc' = "crashed_neigh" /\ UNCHANGED orderedNeighborMap
       ELSE /\ orderedNeighborMap' = buildFromPairs(neighborPairs, featureCount)
            /\ pc' = "tree"
    /\ UNCHANGED <<inputVars, gridCells, neighborPairs, featureCount, root, minerVars>>

\* main.cpp:77
BuildTree ==
    /\ pc = "tree"
    /\ root' = NRTreeBuild(orderedNeighborMap, neighborPairs, featureCount)
    /\ pc' = "mine"
    /\ UNCHANGED <<inputVars, gridCells, neighborPairs, featureCount,
                   orderedNeighborMap, minerVars>>

\* main.cpp:101 and mineColocations, lines 39-67: the call binds minPrev to the
\* configured threshold; P1 = F, T1 = O, k = 2.
MineInit ==
    /\ pc = "mine"
    /\ minPrev' \in IF minPrev = NoThreshold THEN MinPrevs ELSE {minPrev}
    /\ k' = 2
    /\ sortedTypes' = featureSort(getAllObjectTypes(instances), instances)
    /\ prevTableInstances' = initialTableInstances(instances)
    /\ prevColocations' = [i \in DOMAIN sortedTypes' |-> <<sortedTypes'[i]>>]
    /\ allPrevalentColocations' = <<>>
    /\ currentIteration' = 0
    /\ pc' = "loop"
    /\ UNCHANGED <<instances, distanceThreshold, observed, gridCells,
                   neighborPairs, featureCount, orderedNeighborMap, root,
                   candidates, fiteredCandidates, tableInstances>>

pipelineVars == <<gridCells, neighborPairs, featureCount, orderedNeighborMap, root>>

\* Line 70: the loop condition fails, the result is returned.
LoopExit ==
    /\ pc = "loop"
    /\ prevColocations = <<>>
    /\ pc' = "done"
    /\ UNCHANGED <<inputVars, pipelineVars, minerVars>>

\* Lines 70-97: step 8, and the break when no candidate was generated.
GenerateStep ==
    /\ pc = "loop"
    /\ prevColocations # <<>>
    /\ currentIteration' = currentIteration + 1
    /\ tableInstances' = <<>>
    /\ IF generateCandidatesThrows(prevColocations, featureCount)
       THEN pc' = "crashed_mine" /\ UNCHANGED candidates
       ELSE /\ candidates' = generateCandidates(prevColocations, featureCount)
            /\ pc' = IF candidates' = <<>> THEN "done" ELSE "filter"
    /\ UNCHANGED <<inputVars, pipelineVars, k, sortedTypes, prevColocations,
                   prevTableInstances, fiteredCandidates, allPrevalentColocations>>

\* Lines 109-112: step 9, skipped at k = 2.
FilterStep ==
    /\ pc = "filter"
    /\ fiteredCandidates' =
          IF k # 2
          THEN filterCandidates(candidates, prevColocations, prevTableInstances,
                                minPrev, featureCount, delta)
          ELSE candidates
    /\ pc' = "table"
    /\ UNCHANGED <<inputVars, pipelineVars, k, sortedTypes, prevColocations,
                   prevTableInstances, candidates, tableInstances,
                   allPrevalentColocations, currentIteration>>

\* Lines 118-122: step 10.
TableStep ==
    /\ pc = "table"
    /\ tableInstances' = genTableInstance(fiteredCandidates, prevTableInstances, root)
    /\ pc' = "select"
    /\ UNCHANGED <<inputVars, pipelineVars, k, sortedTypes, prevColocations,
                   prevTableInstances, candidates, fiteredCandidates,
                   allPrevalentColocations, currentIteration>>

\* Lines 136-176: steps 11-13; the tables move to prevTableInstances.
SelectStep ==
    /\ pc = "select"
    /\ prevColocations' = selectPrevColocations(fiteredCandidates, tableInstances,
                                                minPrev, featureCount, delta)
    /\ allPrevalentColocations' = accumulate(allPrevalentColocations, prevColocations')
    /\ prevTableInstances' = tableInstances
    /\ tableInstances' = <<>>
    /\ k' = k + 1
    /\ pc' = "loop"
    /\ UNCHANGED <<inputVars, pipelineVars, sortedTypes, candidates,
                   fiteredCandidates, currentIteration>>

Next ==
    \/ FindNeighborPair
    \/ FindNeighborPairOutOfBounds
    \/ FindNeighborPairInvalidDistance
    \/ CountInstances
    \/ BuildFromPairs
    \/ BuildTree
    \/ MineInit
    \/ LoopExit
    \/ GenerateStep
    \/ FilterStep
    \/ TableStep
    \/ SelectStep

Spec == Init /\ [][Next]_vars

\* The program is one thread that always takes its next step.
FairSpec == Spec /\ WF_vars(Next)

(***************************************************************************)
(* The program run a second time: main on the same objects in another      *)
(* order of the input file, with the same d and minPrev.  observed keeps    *)
(* the set the first run returned.                                         *)
(***************************************************************************)
Reorderings(insts) ==
    {[i \in DOMAIN insts |-> insts[p[i]]] : p \in Permutations(DOMAIN insts)}

Rerun ==
    /\ pc = "done"
    /\ observed = <<>>
    /\ observed' = <<{allPrevalentColocations[i] : i \in DOMAIN allPrevalentColocations}>>
    /\ instances' \in Reorderings(instances)
    /\ pc' = "index"
    /\ gridCells' = <<>>
    /\ neighborPairs' = <<>>
    /\ featureCount' = <<>>
    /\ orderedNeighborMap' = <<>>
    /\ root' = emptyRoot
    /\ k' = 0
    /\ sortedTypes' = <<>>
    /\ prevColocations' = <<>>
    /\ prevTableInstances' = <<>>
    /\ candidates' = <<>>
    /\ fiteredCandidates' = <<>>
    /\ tableInstances' = <<>>
    /\ allPrevalentColocations' = <<>>
    /\ currentIteration' = 0
    /\ UNCHANGED <<distanceThreshold, minPrev>>

\* With integer coordinates every grid of cell size 1 is written past its end:
\* the runs with d = 1 are left out of the comparison.  The runs compared use
\* the threshold 0, the one with the largest results.
RerunInit ==
    /\ \E n \in 0 .. MaxObjs : \E shapes \in [1 .. n -> ObjectShapes] :
        \E scheme \in IdSchemes : instances = InputObjects(shapes, scheme)
    /\ distanceThreshold \in (MinD .. MaxD) \ {1}
    /\ minPrev = <<0, 1>>
    /\ Start
RerunNext == Next \/ Rerun
RerunSpec == RerunInit /\ [][RerunNext]_vars

(***************************************************************************)
(* calculateDelta called on its own (utils.cpp:93) with any list of        *)
(* distinct features and a catalog that has counted each of them.          *)
(***************************************************************************)
DistinctSeqs(S) ==
    {q \in UNION {[1 .. n -> S] : n \in 0 .. Cardinality(S)} :
        \A i, j \in DOMAIN q : i # j => q[i] # q[j]}

\* The counts of the catalog: the small ones, and those of testCalculateDelta.
CountValues == (1 .. MaxCount) \cup {10, 20, 40}

DeltaInit ==
    /\ instances = <<>>
    /\ distanceThreshold = MaxD
    /\ minPrev = NoThreshold
    /\ Start
DeltaArguments ==
    /\ pc = "index"
    /\ sortedTypes' \in DistinctSeqs(FeatureTypes)
    /\ featureCount' \in [Range(sortedTypes') -> CountValues]
    /\ pc' = "delta_call"
    /\ UNCHANGED <<inputVars, gridCells, neighborPairs, orderedNeighborMap, root,
                   k, prevColocations, prevTableInstances, candidates,
                   fiteredCandidates, tableInstances, allPrevalentColocations,
                   currentIteration>>
DeltaCall ==
    /\ pc = "delta_call"
    /\ observed' = <<calculateDelta(sortedTypes, featureCount)>>
    /\ pc' = "delta_returned"
    /\ UNCHANGED <<instances, distanceThreshold, minPrev, pipelineVars, minerVars>>
DeltaNext == DeltaArguments \/ DeltaCall
DeltaSpec == DeltaInit /\ [][DeltaNext]_vars

(***************************************************************************)
(* The two worked scenarios, their objects in any order of the input file. *)
(* Scenario 2 gives no coordinates: its objects are placed in half units   *)
(* (d = 1 is 2), the clique at (0,0), (0.5,0), (0,0.5), the two isolated   *)
(* objects at (3.5,1.5) and (1.5,3.5), so that no grid index overflows.    *)
(***************************************************************************)
Object(t, n, x, y) == [id |-> [pre |-> t, num |-> n], type |-> t, x |-> x, y |-> y]

Scenario1 ==
    [objects |-> <<Object("A", 1, 0, 0), Object("A", 2, 10, 10), Object("B", 1, 1, 0),
                   Object("B", 2, 10, 11), Object("C", 1, 2, 0)>>,
     d |-> 2, minPrev |-> <<1, 2>>]
Scenario2 ==
    [objects |-> <<Object("A", 1, 0, 0), Object("B", 1, 1, 0), Object("C", 1, 0, 1),
                   Object("A", 2, 7, 3), Object("B", 2, 3, 7)>>,
     d |-> 2, minPrev |-> <<3, 5>>]

ScenarioInit ==
    /\ \E sc \in {Scenario1, Scenario2} :
          /\ instances \in Reorderings(sc.objects)
          /\ distanceThreshold = sc.d
          /\ minPrev = sc.minPrev
    /\ Start
\* Both thresholds are positive: the index takes one of its two other steps.
ScenarioNext ==
    \/ FindNeighborPair
    \/ FindNeighborPairOutOfBounds
    \/ CountInstances
    \/ BuildFromPairs
    \/ BuildTree
    \/ MineInit
    \/ LoopExit
    \/ GenerateStep
    \/ FilterStep
    \/ TableStep
    \/ SelectStep
ScenarioSpec == ScenarioInit /\ [][ScenarioNext]_vars

(***************************************************************************)
(* The notions the specification is written in: the count of a feature is  *)
(* the number of input objects of that type, the feature ordering is by    *)
(* (count, label), two objects are neighbours when they are within the     *)
(* distance threshold, and the table instance of a colocation holds every  *)
(* row of pairwise neighbours with its type sequence.                      *)
(***************************************************************************)
InputTypes == {instances[i].type : i \in DOMAIN instances}
Count(f) == Cardinality({i \in DOMAIN instances : instances[i].type = f})
Prec(a, b) == Count(a) < Count(b) \/ (Count(a) = Count(b) /\ StrLess(a, b))
Counts == [t \in InputTypes |-> Count(t)]
SortedFeatures == SortSeq(SetToSeq(InputTypes), Prec)

StrictlySorted(C) == \A i, j \in DOMAIN C : i < j => Prec(C[i], C[j])
SortedSets ==
    {C \in [1 .. 2 -> InputTypes] \cup [1 .. 3 -> InputTypes] : StrictlySorted(C)}

Neighbors(a, b) == euclideanLeq(a, b, distanceThreshold)
FullRows(C) ==
    {r \in [DOMAIN C -> DOMAIN instances] :
        /\ \A i \in DOMAIN C : instances[r[i]].type = C[i]
        /\ \A i, j \in DOMAIN C : Neighbors(instances[r[i]], instances[r[j]])}
FullTable(C) ==
    LET rows == SetToSeq(FullRows(C))
    IN  C :> [n \in DOMAIN rows |-> [i \in DOMAIN C |-> InstPtr(rows[n][i])]]
\* WPI(C) >= minPrev over the full table instance.
Prevalent(C) ==
    ~VLess(candidateWPI(C, FullTable(C), Counts, calculateDelta(SortedFeatures, Counts)),
           Plain(minPrev))

Crashed == pc \in {"crashed_index", "crashed_neigh", "crashed_mine"}
Returned == Range(allPrevalentColocations)

(***************************************************************************)
(* C1.  When mineColocations has returned, a sorted set C of at least two  *)
(* feature types is in the returned list if and only if WPI(C) >= minPrev, *)
(* WPI taken over the full table instance of C.                            *)
(***************************************************************************)
C1_ReturnedIffPrevalent ==
    pc = "done" => \A C \in SortedSets : (C \in Returned) <=> Prevalent(C)

(***************************************************************************)
(* C2.  Every returned colocation is strictly sorted under the feature     *)
(* ordering (ascending count, ties by label), hence without repetition.    *)
(***************************************************************************)
C2_ReturnedStrictlySorted ==
    pc = "done" => \A C \in Returned : StrictlySorted(C)

(***************************************************************************)
(* C3.  Every row stored in a table instance, of the previous level or of  *)
(* the current one, has as many objects as its colocation has features,    *)
(* the i-th object has the i-th feature as its type, and every two objects *)
(* of the row are within the distance threshold.                           *)
(***************************************************************************)
RowWellFormed(C, r) ==
    /\ Len(r) = Len(C)
    /\ \A i \in DOMAIN r : i \in DOMAIN C /\ Deref(r[i]).type = C[i]
    /\ \A i, j \in DOMAIN r : Neighbors(Deref(r[i]), Deref(r[j]))
TableWellFormed(t) ==
    \A C \in DOMAIN t : \A n \in DOMAIN t[C] : RowWellFormed(C, t[C][n])

C4_SubsetsReturned ==
    pc = "done" =>
        \A C \in Returned : Len(C) >= 2 =>
            \A i \in 2 .. Len(C) : subsetWithout(C, i) \in Returned

\* C4, amended: the same for every returned colocation of size k >= 3 (the
\* subsets of a pair are single features, which are never returned).
C4_SubsetsReturnedFromSize3 ==
    pc = "done" =>
        \A C \in Returned : Len(C) >= 3 =>
            \A i \in 2 .. Len(C) : subsetWithout(C, i) \in Returned

\* A colocation of three features has been returned.
C4_TripleReturned == pc = "done" /\ \E C \in Returned : Len(C) = 3

(***************************************************************************)
(* C5.  On a non-empty object list findNeighborPair returns, and its       *)
(* result holds every pair of objects of different types within the        *)
(* distance threshold exactly once, and no other pair.                     *)
(***************************************************************************)
PairCount(a, b) ==
    Cardinality({p \in DOMAIN neighborPairs :
                    {neighborPairs[p][1], neighborPairs[p][2]} = {a, b}})

C5_EveryPairExactlyOnce ==
    instances # <<>> =>
        /\ pc # "crashed_index"
        /\ pc # "index" =>
             \A i, j \in DOMAIN instances : i < j =>
                PairCount(instances[i], instances[j]) =
                    IF /\ instances[i].type # instances[j].type
                       /\ Neighbors(instances[i], instances[j])
                    THEN 1 ELSE 0

(***************************************************************************)
(* C6.  buildFromPairs returns, and afterwards n is recorded in the        *)
(* ordered neighbourhood of o exactly when o and n are a pair of the       *)
(* spatial index and the type of o is strictly before the type of n in the *)
(* feature ordering.                                                       *)
(***************************************************************************)
Recorded(o, n) ==
    \E t \in DOMAIN orderedNeighborMap : \E s \in DOMAIN orderedNeighborMap[t] :
        LET star == orderedNeighborMap[t][s]
        IN  /\ Deref(star.center) = o
            /\ \E f \in DOMAIN star.neighbors : \E q \in DOMAIN star.neighbors[f] :
                  Deref(star.neighbors[f][q]) = n
NeighborhoodsBuilt ==
    pc \in {"tree", "mine", "loop", "filter", "table", "select", "done", "crashed_mine"}

C6_OrderedNeighborhoods ==
    /\ pc # "crashed_neigh"
    /\ NeighborhoodsBuilt =>
         \A o, n \in Range(instances) :
            Recorded(o, n) <=> (PairCount(o, n) > 0 /\ Prec(o.type, n.type))

(***************************************************************************)
(* C7.  Once the tree is built, findNeighbors on the handle of an input    *)
(* object o (its place in the object list) and a feature f returns exactly *)
(* the objects of type f recorded in the ordered neighbourhood of o.       *)
(***************************************************************************)
TreeBuilt == pc \in {"mine", "loop", "filter", "table", "select", "done", "crashed_mine"}
ON(o, f) == {n \in Range(instances) : n.type = f /\ Recorded(o, n)}

C7_FindNeighborsIsON ==
    TreeBuilt =>
        \A i \in DOMAIN instances : \A f \in FeatureTypes :
            {Deref(h) : h \in Range(findNeighbors(root, InstPtr(i), f))}
                = ON(instances[i], f)

(***************************************************************************)
(* C8.  Once the objects are counted, the count of every feature type is   *)
(* the number of input objects that have it as their type.                 *)
(***************************************************************************)
C8_CountIsNumberOfObjects ==
    pc \notin {"index", "count", "crashed_index"} =>
        \A f \in FeatureTypes : CountOrZero(featureCount, f) = Count(f)

(***************************************************************************)
(* C9.  Every participation ratio the miner computes lies in [0, 1]: that  *)
(* of each feature of each candidate scored by selectPrevColocations, and  *)
(* that of each feature of the subset the Lemma 3 filter looks up.         *)
(***************************************************************************)
InUnitInterval(r) == RLeq(RInt(0), r) /\ RLeq(r, RInt(1))

C10_LoopExitsAndIsBounded ==
    /\ pc # "crashed_mine"
    /\ currentIteration <= Cardinality(InputTypes)
    /\ currentIteration >= 1 => k <= Cardinality(InputTypes) + 1

(***************************************************************************)
(* C11.  The result is ordered by non-decreasing size, none of its         *)
(* elements is smaller than 2, and it is built as the concatenation of the *)
(* prevalent sets of the iterations k = 2, 3, ... in that order: it starts *)
(* empty, iteration k appends its prevalent set, whose elements have size  *)
(* k, and no other step changes it.                                        *)
(***************************************************************************)
ResultBySize ==
    \A i, j \in DOMAIN allPrevalentColocations :
        /\ Len(allPrevalentColocations[i]) >= 2
        /\ i <= j => Len(allPrevalentColocations[i]) <= Len(allPrevalentColocations[j])
ResultStep ==
    /\ pc = "mine" => allPrevalentColocations' = <<>>
    /\ pc = "select" =>
          /\ allPrevalentColocations' = allPrevalentColocations \o prevColocations'
          /\ \A c \in Range(prevColocations') : Len(c) = k
    /\ pc \notin {"mine", "select"} => UNCHANGED allPrevalentColocations

C11_ResultIsConcatenation == []ResultBySize /\ [][ResultStep]_vars

\* The prevalent sets of two iterations have been returned.
C11_TwoLevelsReturned ==
    /\ pc = "done"
    /\ \E i, j \in DOMAIN allPrevalentColocations :
          Len(allPrevalentColocations[i]) = 2 /\ Len(allPrevalentColocations[j]) = 3


(***************************************************************************)
(* C12.  For every input list and every reordering of it, the pipeline run *)
(* again with the same d and minPrev returns the same set of colocations:  *)
(* the second run ends normally and its result, as a set, is the set the   *)
(* first run returned.                                                     *)
(***************************************************************************)
C12_SameSetOnReorderedInput ==
    observed # <<>> =>
        /\ ~Crashed
        /\ pc = "done" => Returned = observed[1]

(***************************************************************************)
(* C13.  The list featureSort returns is a permutation of the feature set  *)
(* it was given, in ascending order of the features' instance counts, a    *)
(* tie broken by the lexicographic order of the labels.                    *)
(***************************************************************************)
C13_FeatureSortAscendingByCount ==
    pc \in {"loop", "filter", "table", "select", "done", "crashed_mine"} =>
        /\ Len(sortedTypes) = Cardinality(InputTypes)
        /\ Range(sortedTypes) = InputTypes
        /\ \A i, j \in DOMAIN sortedTypes : i < j => Prec(sortedTypes[i], sortedTypes[j])

(***************************************************************************)
(* C14.  Called with m >= 2 feature types whose counts c_1 <= ... <= c_m   *)
(* are positive, calculateDelta returns (2 / (m (m - 1))) times the sum of *)
(* c_j / c_i over i < j; called with fewer than two types it returns 0.    *)
(* The equation is stated in integers, both sides multiplied by the        *)
(* denominators: with P the product of the counts,                         *)
(* n * m (m - 1) * P = 2 * d * sum of c_j * (P / c_i) for the result n / d.*)
(***************************************************************************)
PositiveAscending ==
    /\ \A i \in DOMAIN sortedTypes :
          sortedTypes[i] \in DOMAIN featureCount /\ featureCount[sortedTypes[i]] > 0
    /\ \A i, j \in DOMAIN sortedTypes :
          i < j => featureCount[sortedTypes[i]] <= featureCount[sortedTypes[j]]

RECURSIVE ProductOf(_)
ProductOf(cs) == IF cs = <<>> THEN 1 ELSE Head(cs) * ProductOf(Tail(cs))

RECURSIVE SumOver(_, _, _)
SumOver(cs, pairs, P) ==
    IF pairs = {} THEN 0
    ELSE LET ij == CHOOSE q \in pairs : TRUE
         IN  cs[ij[2]] * (P \div cs[ij[1]]) + SumOver(cs, pairs \ {ij}, P)

C14_DeltaIsMeanRatio ==
    pc = "delta_returned" =>
        LET m == Len(sortedTypes)
        IN  /\ m < 2 => observed[1] = <<0, 1>>
            /\ m >= 2 /\ PositiveAscending =>
                  LET cs == [i \in 1 .. m |-> featureCount[sortedTypes[i]]]
                      P == ProductOf(cs)
                      pairs == {q \in (1 .. m) \X (1 .. m) : q[1] < q[2]}
                  IN  /\ observed[1][2] > 0
                      /\ observed[1][1] * m * (m - 1) * P
                            = 2 * observed[1][2] * SumOver(cs, pairs, P)

\* Both cases of testCalculateDelta have been computed: 2 and 8/3.
C14_TestCasesComputed ==
    /\ pc = "delta_returned"
    /\ sortedTypes = <<"A", "B", "C">>
    /\ featureCount = [t \in FeatureTypes |->
                          CASE t = "A" -> 10 [] t = "B" -> 20 [] OTHER -> 40]
    /\ observed = << <<8, 3>> >>

(***************************************************************************)
(* C15.  With a distance threshold d <= 0 the spatial index reports the    *)
(* error InvalidDistance, emits no neighbour pair and builds no grid.  No  *)
(* statement of the index raises the error, so no step reaches the state   *)
(* that stands for it.                                                     *)
(***************************************************************************)
InvalidDistanceReported == pc = "invalid_distance"

C15_NonPositiveDistanceRejected ==
    distanceThreshold <= 0 /\ pc # "index" =>
        /\ InvalidDistanceReported
        /\ neighborPairs = <<>>
        /\ gridCells = <<>>

(***************************************************************************)
(* C16.  When there is no neighbour pair, mineColocations returns an empty *)
(* result, for every minPrev, 0 included.                                  *)
(***************************************************************************)
NoNeighborPairs ==
    /\ neighborPairs = <<>>
    /\ \A i, j \in DOMAIN instances :
          instances[i].type # instances[j].type
              => ~Neighbors(instances[i], instances[j])

FullyParticipating(C) ==
    \A n \in DOMAIN C : \A i \in DOMAIN instances :
        instances[i].type = C[n] => \E r \in FullRows(C) : r[n] = i

C17_OnlyFullParticipation ==
    pc = "done" /\ minPrev = <<1, 1>> =>
        \A C \in Returned : FullyParticipating(C)

(***************************************************************************)
(* C18.  Scenario 1 (A1(0,0), A2(10,10), B1(1,0), B2(10,11), C1(2,0),      *)
(* d = 2, minPrev = 0.5): the pipeline runs without error and returns      *)
(* exactly {C,A}, {A,B} and {C,A,B}.                                       *)
(***************************************************************************)
IsScenario(sc) ==
    /\ Range(instances) = Range(sc.objects)
    /\ distanceThreshold = sc.d
    /\ minPrev = sc.minPrev

C18_Scenario1Result ==
    IsScenario(Scenario1) =>
        /\ ~Crashed
        /\ pc = "done" =>
              Returned = {<<"C", "A">>, <<"A", "B">>, <<"C", "A", "B">>}

C20_EveryObjectInItsCell ==
    pc # "index" /\ instances # <<>> /\ distanceThreshold > 0 =>
        /\ pc # "crashed_index"
        /\ \A i \in DOMAIN instances :
              LET o == instances[i]
                  d == distanceThreshold
              IN  /\ cellXOf(instances, d, o) < gridCellsXOf(instances, d)
                  /\ cellYOf(instances, d, o) < gridCellsYOf(instances, d)
                  /\ cellIndexOf(instances, d, o) < totalCellsOf(instances, d)
                  /\ \A c \in DOMAIN gridCells :
                        Cardinality({n \in DOMAIN gridCells[c] : gridCells[c][n] = o})
                            = IF c = cellIndexOf(instances, d, o) THEN 1 ELSE 0

(***************************************************************************)
(* C21.  After genTableInstance, the rows stored for a filtered candidate  *)
(* C are exactly the rows I + (o) with I a row of the previous table of    *)
(* C's prefix and o an input object of C's last feature that is within the *)
(* distance threshold of every object of I: no other row is stored and no  *)
(* such extension is missing.                                              *)
(***************************************************************************)
C21_TableIsCliqueExtensions ==
    pc = "select" =>
        \A C \in Range(fiteredCandidates) :
            LET stored == IF C \in DOMAIN tableInstances
                          THEN Range(tableInstances[C]) ELSE {}
                prevRows == IF Front(C) \in DOMAIN prevTableInstances
                            THEN Range(prevTableInstances[Front(C)]) ELSE {}
                extensions ==
                    {Append(I, InstPtr(o)) : <<I, o>> \in
                        {Io \in prevRows \X DOMAIN instances :
                            /\ instances[Io[2]].type = Back(C)
                            /\ \A i \in DOMAIN Io[1] :
                                  Neighbors(Deref(Io[1][i]), instances[Io[2]])}}
            IN  {[i \in DOMAIN r |-> Deref(r[i])] : r \in stored}
                    = {[i \in DOMAIN r |-> Deref(r[i])] : r \in extensions}

(***************************************************************************)
(* C22.  Once the tree is built, every handle it holds (the centre of an   *)
(* instance node, the members of a leaf vector) is a reference into the    *)
(* input object list, as the handles of table rows are, and findExtendedSet*)
(* on a row of input objects returns, by object id, exactly the objects of *)
(* the asked type recorded in the ordered neighbourhood of every object of *)
(* the row.                                                                *)
(***************************************************************************)
TreeHandles ==
    UNION {UNION {{root.children[a].children[b].instancePtr}
                  \cup UNION {Range(root.children[a].children[b].children[c]
                                        .children[1].instanceVector) :
                              c \in DOMAIN root.children[a].children[b].children} :
                  b \in DOMAIN root.children[a].children} :
           a \in DOMAIN root.children}

C22_IntersectionByObjectIdentity ==
    TreeBuilt =>
        /\ \A h \in TreeHandles : h.arr = "instances"
        /\ \A n \in 1 .. 2 : \A I \in [1 .. n -> DOMAIN instances] : \A f \in FeatureTypes :
              {Deref(h).id : h \in Range(findExtendedSet(root,
                                            [i \in 1 .. n |-> InstPtr(I[i])], f))}
                  = {o.id : o \in {o \in Range(instances) :
                                    \A i \in 1 .. n : o \in ON(instances[I[i]], f)}}

(***************************************************************************)
(* The pipeline with the handles of the tree as they are specified:        *)
(* references into the input object list, the entities that table rows     *)
(* refer to.  Everything else is the code's.  The inputs are a clique A1,  *)
(* B2, C3, D4 and up to four more objects, each left out, placed far from  *)
(* every other object, or placed inside the clique, and D4 may stand far   *)
(* from every other object instead of in the clique; ids start with the    *)
(* type and no coordinate extent is a multiple of the distance threshold.  *)
(***************************************************************************)
LevelClique ==
    <<Object("A", 1, 0, 0), Object("B", 2, 1, 0), Object("C", 3, 0, 1), Object("D", 4, 1, 1)>>
LevelPool ==
    <<Object("B", 5, 11, 0), Object("C", 6, 21, 0), Object("D", 7, 31, 0), Object("B", 8, 41, 0)>>
LevelThresholds == {<<0, 1>>, <<1, 2>>, <<3, 5>>, <<1, 1>>}

LevelInit ==
    /\ \E place \in [DOMAIN LevelPool -> {"absent", "isolated", "clique"}], far \in BOOLEAN :
          instances =
              [LevelClique EXCEPT ![4] = IF far THEN [@ EXCEPT !.x = 51, !.y = 0] ELSE @] \o
              [n \in DOMAIN SelectSeq(LevelPool, LAMBDA o : place[o.id.num - 4] # "absent") |->
                  LET o == SelectSeq(LevelPool, LAMBDA q : place[q.id.num - 4] # "absent")[n]
                  IN  IF place[o.id.num - 4] = "clique" THEN [o EXCEPT !.x = 1, !.y = 1]
                      ELSE o]
    /\ distanceThreshold = 2
    /\ minPrev \in LevelThresholds
    /\ Start

\* The handle of the input object that h denotes.
InputHandle(h) == InstPtr(CHOOSE i \in DOMAIN instances : instances[i].id = Deref(h).id)

\* main.cpp:77 with every handle of the new tree a reference into the object list.
BuildTreeWithInputHandles ==
    /\ pc = "tree"
    /\ root' =
          LET built == NRTreeBuild(orderedNeighborMap, neighborPairs, featureCount)
              leaf(node) ==
                  [node EXCEPT !.instanceVector =
                      [n \in DOMAIN node.instanceVector |-> InputHandle(node.instanceVector[n])]]
              neighborFeature(node) ==
                  [node EXCEPT !.children = [l \in DOMAIN node.children |-> leaf(node.children[l])]]
              center(node) ==
                  [node EXCEPT !.instancePtr = InputHandle(node.instancePtr),
                               !.children = [c \in DOMAIN node.children |->
                                                neighborFeature(node.children[c])]]
              feature(node) ==
                  [node EXCEPT !.children = [b \in DOMAIN node.children |-> center(node.children[b])]]
          IN  [built EXCEPT !.children = [a \in DOMAIN built.children |-> feature(built.children[a])]]
    /\ pc' = "mine"
    /\ UNCHANGED <<inputVars, gridCells, neighborPairs, featureCount,
                   orderedNeighborMap, minerVars>>

LevelNext ==
    \/ FindNeighborPair
    \/ CountInstances
    \/ BuildFromPairs
    \/ BuildTreeWithInputHandles
    \/ MineInit
    \/ LoopExit
    \/ GenerateStep
    \/ FilterStep
    \/ TableStep
    \/ SelectStep
LevelSpec == LevelInit /\ [][LevelNext]_vars

JoinArguments ==
    /\ pc = "index"
    /\ featureCount' \in [FeatureTypes -> 1 .. MaxCount]
    /\ \E m \in 1 .. 2 :
          prevColocations' \in
              DistinctSeqs({c \in [1 .. m -> FeatureTypes] :
                  \A i, j \in 1 .. m : i < j => CountLess(featureCount', c[i], c[j])})
    /\ pc' = "generate_call"
    /\ UNCHANGED <<inputVars, gridCells, neighborPairs, orderedNeighborMap, root,
                   k, sortedTypes, prevTableInstances, candidates, fiteredCandidates,
                   tableInstances, allPrevalentColocations, currentIteration>>
GenerateCall ==
    /\ pc = "generate_call"
    /\ observed' = <<generateCandidates(prevColocations, featureCount)>>
    /\ pc' = "generate_returned"
    /\ UNCHANGED <<instances, distanceThreshold, minPrev, pipelineVars, minerVars>>
JoinNext == JoinArguments \/ GenerateCall
JoinSpec == DeltaInit /\ [][JoinNext]_vars

\* The sequences P + [a, b] with P + [a] and P + [b] in the list and a before b.
JoinsOf(prevPrevalent, counts) ==
    {Append(pq[1], Back(pq[2])) : pq \in
        {pq \in Range(prevPrevalent) \X Range(prevPrevalent) :
            /\ Front(pq[1]) = Front(pq[2])
            /\ CountLess(counts, Back(pq[1]), Back(pq[2]))}}
IsJoinResult(result, prevPrevalent, counts) ==
    /\ Range(result) = JoinsOf(prevPrevalent, counts)
    /\ Cardinality(Range(result)) = Len(result)
    /\ \A c \in Range(result) :
          \A i, j \in DOMAIN c : i < j => CountLess(counts, c[i], c[j])
\* Members that share their prefix and whose last features have equal counts
\* stand in the list in the order of the labels of those features.
TiesInLabelOrder(prevPrevalent, counts) ==
    \A i, j \in DOMAIN prevPrevalent :
        /\ i < j
        /\ Front(prevPrevalent[i]) = Front(prevPrevalent[j])
        /\ counts[Back(prevPrevalent[i])] = counts[Back(prevPrevalent[j])]
        => StrLess(Back(prevPrevalent[i]), Back(prevPrevalent[j]))

WeightTypes ==
    <<"F01", "F02", "F03", "F04", "F05", "F06", "F07", "F08", "F09", "F10",
      "F11", "F12", "F13", "F14", "F15", "F16", "F17", "F18", "F19", "F20">>

WeightArguments ==
    /\ pc = "index"
    /\ \E m \in 3 .. Len(WeightTypes) : \E N \in 1 .. Len(WeightTypes) :
          LET first == WeightTypes[1]
              second == WeightTypes[2]
              last == WeightTypes[m]
              row == <<InstPtr(2), InstPtr(m)>>
          IN  /\ instances' = [i \in 1 .. (m - 1 + N) |->
                                 Object(IF i < m THEN WeightTypes[i] ELSE last, i,
                                        IF i = m THEN 9 ELSE 4 * i, 0)]
              /\ sortedTypes' = SubSeq(WeightTypes, 1, m)
              /\ featureCount' = [t \in Range(SubSeq(WeightTypes, 1, m)) |->
                                    IF t = last THEN N ELSE 1]
              /\ k' = 3
              /\ prevColocations' = <<<<first, second>>, <<first, last>>>>
              /\ prevTableInstances' = (<<second, last>> :> <<row>>)
              /\ candidates' = <<<<first, second, last>>>>
              /\ fiteredCandidates' = <<<<second, last>>>>
              /\ tableInstances' = (<<second, last>> :> <<row>>)
    /\ minPrev' \in MinPrevs
    /\ pc' = "weight_call"
    /\ UNCHANGED <<distanceThreshold, observed, gridCells, neighborPairs,
                   orderedNeighborMap, root, allPrevalentColocations, currentIteration>>
\* Lines 136-140 on the candidate {F02, last} and its one-row table.
SelectCall ==
    /\ pc = "weight_call"
    /\ observed' = <<selectPrevColocations(fiteredCandidates, tableInstances,
                                           minPrev, featureCount, delta)>>
    /\ pc' = "select_returned"
    /\ UNCHANGED <<instances, distanceThreshold, minPrev, pipelineVars, minerVars>>
\* Lines 110-111 on the candidate {F01, F02, last}.
FilterCall ==
    /\ pc = "weight_call"
    /\ observed' = <<filterCandidates(candidates, prevColocations, prevTableInstances,
                                      minPrev, featureCount, delta)>>
    /\ pc' = "filter_returned"
    /\ UNCHANGED <<instances, distanceThreshold, minPrev, pipelineVars, minerVars>>
WeightNext == WeightArguments \/ SelectCall \/ FilterCall
WeightSpec == DeltaInit /\ [][WeightNext]_vars

(***************************************************************************)
(* C26.  A candidate that has a feature f with RI(f, C) <= EPSILON_SMALL   *)
(* gets the weight 0 for f and is not selected by selectPrevColocations,   *)
(* whatever minPrev in [0, 1] is; and filterCandidates uses the same       *)
(* guarded weight in the Lemma-3 bound, so that for minPrev > 0 a          *)
(* candidate whose last feature has such an RI has the bound 0 and is      *)
(* rejected.                                                               *)
(***************************************************************************)
C26_NegligibleRIMeansWeightZero ==
    \* RI(f, C) <= EPSILON_SMALL: RI is 0.0, or exp(-e) with e >= ln(1 / EPSILON_SMALL).
    LET NegligibleRI(f, C) ==
            LET ri == calculateRareIntensity(f, C, featureCount, delta)
            IN  ri.zero \/ ~RLess(ri.e, LnEpsilonSmallInv)
    IN  /\ pc = "select_returned" =>
              \A C \in Range(fiteredCandidates) :
                  (\E i \in DOMAIN C : NegligibleRI(C[i], C)) =>
                      /\ \A i \in DOMAIN C :
                            NegligibleRI(C[i], C) =>
                                weightedPR(C[i], C, tableInstances, featureCount, delta)
                                    = Plain(RInt(0))
                      /\ C \notin Range(observed[1])
        /\ pc = "filter_returned" /\ minPrev[1] > 0 =>
              \A C \in Range(candidates) :
                  NegligibleRI(Back(C), C) => C \notin Range(observed[1])

(***************************************************************************)
(* C27.  Scenario 5: when the distance threshold is smaller than the       *)
(* distance of every two objects and the input has two or more feature     *)
(* types, generateCandidates yields no candidate at k = 2, the loop ends   *)
(* in its first iteration through the check of the empty candidate list,   *)
(* and neither filterCandidates, genTableInstance nor                      *)
(* selectPrevColocations is run.                                           *)
(***************************************************************************)
NoTwoWithinDistance ==
    /\ distanceThreshold > 0
    /\ Cardinality(InputTypes) >= 2
    /\ \A i, j \in DOMAIN instances : i # j => ~Neighbors(instances[i], instances[j])

C28_TreeShape ==
    TreeBuilt =>
        /\ root = NRTreeBuild(orderedNeighborMap, neighborPairs, featureCount)
        /\ [a \in DOMAIN root.children |-> root.children[a].featureType] = SortedFeatures
        /\ \A a \in DOMAIN root.children :
              LET featureNode == root.children[a]
                  objects == SelectSeq(instances, LAMBDA o : o.type = featureNode.featureType)
              IN  /\ [b \in DOMAIN featureNode.children |->
                            Deref(featureNode.children[b].instancePtr)]
                        = SortSeq(objects, LAMBDA o, q : IdLess(o.id, q.id))
                  /\ \A b \in DOMAIN featureNode.children :
                        LET centerNode == featureNode.children[b]
                            center == Deref(centerNode.instancePtr)
                            present == {f \in FeatureTypes : ON(center, f) # {}}
                        IN  /\ [c \in DOMAIN centerNode.children |->
                                      centerNode.children[c].featureType]
                                  = SortSeq(SetToSeq(present), Prec)
                            /\ \A c \in DOMAIN centerNode.children :
                                  LET node == centerNode.children[c]
                                      vector == node.children[1].instanceVector
                                  IN  /\ Len(node.children) = 1
                                      /\ {Deref(vector[n]) : n \in DOMAIN vector}
                                            = ON(center, node.featureType)
                                      /\ \A n, m \in DOMAIN vector :
                                            n < m => IdLess(Deref(vector[n]).id,
                                                            Deref(vector[m]).id)

(***************************************************************************)
(* C29.  At the start of every iteration k of the mining loop, every       *)
(* colocation of prevColocations has exactly k - 1 features, no colocation *)
(* occurs twice in the list, and two members that share their prefix of    *)
(* k - 2 features stand in the list in the feature order of their last     *)
(* features.                                                               *)
(***************************************************************************)
C29_PreviousLevelOrdered ==
    pc = "loop" =>
        /\ \A i \in DOMAIN prevColocations : Len(prevColocations[i]) = k - 1
        /\ \A i, j \in DOMAIN prevColocations :
              i # j => prevColocations[i] # prevColocations[j]
        /\ \A i, j \in DOMAIN prevColocations :
              i < j /\ Front(prevColocations[i]) = Front(prevColocations[j])
                  => Prec(Back(prevColocations[i]), Back(prevColocations[j]))

============================================================================
